---- MODULE Spec2Model ----
(***************************************************************************)
(* Model of the MCQ question paper generator (src/app.py).                 *)
(*                                                                         *)
(* Spec      one run of the Streamlit script: the section/marking schema   *)
(*           is parsed, one of the two download buttons is pressed, and    *)
(*           generate_pdf_for_set walks the columns of the selected set.   *)
(*                                                                         *)
(* SpecText  one call of clean_text, stage by stage.                       *)
(*                                                                         *)
(* Column indexes, current_section_idx and question_number keep the values *)
(* they have in the source (columns and sections are counted from 0);      *)
(* sequences of the model are indexed from 1, so no_of_questions[k] of the *)
(* source is no_of_questions[k + 1] here.                                  *)
(***************************************************************************)
EXTENDS Integers, Sequences, FiniteSets, TLC

(***************************************************************************)
(* Bounds of the model.                                                    *)
(***************************************************************************)
MaxGroups == 3
MaxSections == 2
MaxCount == 2

(***************************************************************************)
(* Program constants.                                                      *)
(***************************************************************************)
GroupWidth == 5
LayoutThreshold == 25

VARIABLES
    \* the script run
    df_raw,               \* the uploaded sheet: [ncols, rows]
    sections,             \* section names (a sequence)
    no_of_questions,      \* "No. of Questions": entries as text, or as int once parsed
    marks_per_question,   \* "Marks Per Question": the same
    pc,                   \* position of the script run
    mode,                 \* which button was pressed: "none", "single", "zip"
    unique_sets,          \* get_unique_sets(df_raw)
    zip_pos,              \* position of the ZIP loop in unique_sets (from 1)
    set_name,             \* set handed to generate_pdf_for_set
    df_set,               \* rows of df_raw of that set
    question_number, col_idx, current_section_idx, questions_in_section,
    story,                \* blocks appended by generate_pdf_for_set
    documents,            \* documents built so far: [set, story]
    zip_entries,          \* names written to the archive, in order
    downloads,            \* st.download_button calls
    messages,             \* st.error / st.warning / st.success calls, in order
    \* one call of clean_text
    raw_text,             \* its argument
    text,                 \* the local s
    stage                 \* number of stages of clean_text done

schema_vars == <<sections, no_of_questions, marks_per_question>>
walk_vars == <<question_number, col_idx, current_section_idx,
               questions_in_section, story>>
out_vars == <<documents, zip_entries, downloads, messages>>
text_vars == <<raw_text, text, stage>>

vars == <<df_raw, schema_vars, pc, mode, unique_sets, zip_pos, set_name, df_set,
          walk_vars, out_vars, text_vars>>

(***************************************************************************)
(* Cells of the sheet.  pandas reads an empty cell as NaN.                 *)
(***************************************************************************)
NaN == [na |-> TRUE, text |-> <<>>]
Cell(t) == [na |-> FALSE, text |-> t]
isna(c) == c.na

\* The Set column: 0 stands for a NaN set identifier.
SetNaN == 0

(***************************************************************************)
(* Entries of the comma separated schema fields.  A field entry is text;   *)
(* int() of it succeeds when the text is numeric.                          *)
(***************************************************************************)
StrEntry(v) == [type |-> "str", numeric |-> TRUE, value |-> v]
BadEntry == [type |-> "str", numeric |-> FALSE, value |-> 0]
IntEntry(v) == [type |-> "int", numeric |-> TRUE, value |-> v]

\* list(map(int, [q.strip() for q in xs])): raises ValueError on a non numeric entry
ParsesAsInt(xs) == \A i \in 1..Len(xs) : xs[i].numeric
MapInt(xs) == [i \in 1..Len(xs) |-> IntEntry(xs[i].value)]

\* sum(xs) raises TypeError when an entry is still text
SumRaises(xs) == \E i \in 1..Len(xs) : xs[i].type = "str"

RECURSIVE SumValues(_)
SumValues(xs) == IF xs = <<>> THEN 0 ELSE Head(xs).value + SumValues(Tail(xs))

RECURSIVE SumSeq(_)
SumSeq(xs) == IF xs = <<>> THEN 0 ELSE Head(xs) + SumSeq(Tail(xs))

(***************************************************************************)
(* get_unique_sets: sorted(df["Set"].dropna().unique().tolist())           *)
(***************************************************************************)
Min(S) == CHOOSE x \in S : \A y \in S : x <= y

\* a sort in descending order
Max_(S) == CHOOSE x \in S : \A y \in S : x >= y
RECURSIVE sorted_descending(_)
sorted_descending(S) ==
    IF S = {} THEN <<>> ELSE <<Max_(S)>> \o sorted_descending(S \ {Max_(S)})

RECURSIVE sorted(_)
sorted(S) == IF S = {} THEN <<>> ELSE <<Min(S)>> \o sorted(S \ {Min(S)})

get_unique_sets(df) ==
    sorted({df.rows[i].Set : i \in 1..Len(df.rows)} \ {SetNaN})

\* df_raw[df_raw["Set"] == s].reset_index(drop=True)
FilterSet(df, s) ==
    [ncols |-> df.ncols,
     rows |-> SelectSeq(df.rows, LAMBDA r : r.Set = s)]

\* df_set.iloc[0][df_set.columns[c]], for a column c >= 1
iloc0(df, c) == df.rows[1].cells[c]

(***************************************************************************)
(* Text.  A text is a sequence of characters; a character is a string of   *)
(* the model.  The characters outside ASCII are written by name:           *)
(*   "sup0" .. "sup9", "sup-"   the superscript digits and minus of        *)
(*                              SUPER_MAP                                  *)
(*   "sub0" .. "sub9"           the subscript digits of SUB_MAP            *)
(*   "times"                    the multiplication sign                    *)
(*   "square"                   the black square                           *)
(***************************************************************************)
Digit == {"0", "1", "2", "3", "4", "5", "6", "7", "8", "9"}
Upper == {"A", "B", "C", "D", "E", "F", "G", "H", "I", "J", "K", "L", "M",
          "N", "O", "P", "Q", "R", "S", "T", "U", "V", "W", "X", "Y", "Z"}
Lower == {"a", "b", "c", "d", "e", "f", "g", "h", "i", "j", "k", "l", "m",
          "n", "o", "p", "q", "r", "s", "t", "u", "v", "w", "x", "y", "z"}
Letter == Upper \cup Lower
Space == {" "}

T_SUPER_OPEN == <<"<", "s", "u", "p", "e", "r", ">">>
T_SUPER_CLOSE == <<"<", "/", "s", "u", "p", "e", "r", ">">>
T_SUB_OPEN == <<"<", "s", "u", "b", ">">>
T_SUB_CLOSE == <<"<", "/", "s", "u", "b", ">">>
T_B_OPEN == <<"<", "b", ">">>
T_B_CLOSE == <<"<", "/", "b", ">">>
T_I_OPEN == <<"<", "i", ">">>
T_I_CLOSE == <<"<", "/", "i", ">">>

Super(t) == T_SUPER_OPEN \o t \o T_SUPER_CLOSE
Sub(t) == T_SUB_OPEN \o t \o T_SUB_CLOSE

\* s[i], or "" past the end of s
At(s, i) == IF i >= 1 /\ i <= Len(s) THEN s[i] ELSE ""

\* pat occurs in s at position i
OccursAt(s, i, pat) ==
    /\ i >= 1
    /\ i + Len(pat) - 1 <= Len(s)
    /\ SubSeq(s, i, i + Len(pat) - 1) = pat

\* str.replace(old, new): the occurrences of old, left to right, not overlapping
\* (the text from i on, rewritten; one step per occurrence)
RECURSIVE ReplaceFrom(_, _, _, _)
ReplaceFrom(s, i, old, new) ==
    LET J == {j \in i..Len(s) : OccursAt(s, j, old)}
    IN IF J = {} THEN SubSeq(s, i, Len(s))
       ELSE CHOOSE r \in {SubSeq(s, i, j - 1) \o new
                              \o ReplaceFrom(s, j + Len(old), old, new) :
                          j \in {Min(J)}} : TRUE

Replace(s, old, new) == ReplaceFrom(s, 1, old, new)

\* s with each pair <<old, new>> of the table replaced, in the table's order
\* (each intermediate text is bound as a value before the next replacement)
RECURSIVE ReplaceAll(_, _)
ReplaceAll(s, table) ==
    IF table = <<>> THEN s
    ELSE CHOOSE r \in {ReplaceAll(t, Tail(table)) :
                          t \in {Replace(s, Head(table)[1], Head(table)[2])}} : TRUE

SUPER_MAP ==
    << <<"sup2", "2">>, <<"sup3", "3">>, <<"sup1", "1">>, <<"sup4", "4">>,
       <<"sup5", "5">>, <<"sup6", "6">>, <<"sup7", "7">>, <<"sup8", "8">>,
       <<"sup9", "9">>, <<"sup0", "0">>, <<"sup-", "-">> >>
SUB_MAP ==
    << <<"sub2", "2">>, <<"sub3", "3">>, <<"sub1", "1">>, <<"sub4", "4">>,
       <<"sub5", "5">>, <<"sub6", "6">>, <<"sub7", "7">>, <<"sub8", "8">>,
       <<"sub9", "9">>, <<"sub0", "0">> >>

replace_unicode_super_sub(s) ==
    LET sup == [k \in 1..Len(SUPER_MAP) |->
                   << <<SUPER_MAP[k][1]>>, Super(<<SUPER_MAP[k][2]>>) >>]
        sub == [k \in 1..Len(SUB_MAP) |->
                   << <<SUB_MAP[k][1]>>, Sub(<<SUB_MAP[k][2]>>) >>]
    IN CHOOSE r \in {ReplaceAll(t, sub) : t \in {ReplaceAll(s, sup)}} : TRUE

\* an escape that leaves "<" alone
escape_without_lt(s) ==
    CHOOSE r \in {Replace(a, <<">">>, <<"&", "g", "t", ";">>) :
                     a \in {Replace(s, <<"&">>, <<"&", "a", "m", "p", ";">>)}} : TRUE

\* xml.sax.saxutils.escape(s): "&", then ">", then "<"; quotes are left alone
escape(s) ==
    CHOOSE r \in {Replace(b, <<"<">>, <<"&", "l", "t", ";">>) :
                     b \in {Replace(a, <<">">>, <<"&", "g", "t", ";">>) :
                     a \in {Replace(s, <<"&">>, <<"&", "a", "m", "p", ";">>)}}} : TRUE

P_SUPER_OPEN ==
    <<"[", "[", "S", "U", "P", "E", "R", "_", "O", "P", "E", "N", "]", "]">>
P_SUPER_CLOSE ==
    <<"[", "[", "S", "U", "P", "E", "R", "_", "C", "L", "O", "S", "E", "]", "]">>
P_SUB_OPEN == <<"[", "[", "S", "U", "B", "_", "O", "P", "E", "N", "]", "]">>
P_SUB_CLOSE == <<"[", "[", "S", "U", "B", "_", "C", "L", "O", "S", "E", "]", "]">>
P_B_OPEN == <<"[", "[", "B", "_", "O", "P", "E", "N", "]", "]">>
P_B_CLOSE == <<"[", "[", "B", "_", "C", "L", "O", "S", "E", "]", "]">>
P_I_OPEN == <<"[", "[", "I", "_", "O", "P", "E", "N", "]", "]">>
P_I_CLOSE == <<"[", "[", "I", "_", "C", "L", "O", "S", "E", "]", "]">>

placeholders ==
    << <<T_SUPER_OPEN, P_SUPER_OPEN>>, <<T_SUPER_CLOSE, P_SUPER_CLOSE>>,
       <<T_SUB_OPEN, P_SUB_OPEN>>, <<T_SUB_CLOSE, P_SUB_CLOSE>>,
       <<T_B_OPEN, P_B_OPEN>>, <<T_B_CLOSE, P_B_CLOSE>>,
       <<T_I_OPEN, P_I_OPEN>>, <<T_I_CLOSE, P_I_CLOSE>> >>

preserve_tags_escape(s) ==
    LET back == [k \in 1..Len(placeholders) |->
                    <<placeholders[k][2], placeholders[k][1]>>]
    IN CHOOSE r \in {ReplaceAll(e, back) :
                        e \in {escape(p) : p \in {ReplaceAll(s, placeholders)}}} : TRUE

(***************************************************************************)
(* re.sub.  Each pattern has a matcher: Match(s, i) is the match of the    *)
(* pattern that starts at position i of s, as the regex engine finds it    *)
(* (greedy, with its backtracking), or NoMatch.  re.sub rewrites the       *)
(* leftmost matches, not overlapping, and looks behind in s itself.        *)
(***************************************************************************)
NoMatch == [ok |-> FALSE, next |-> 0, repl |-> <<>>]
Match(next, repl) == [ok |-> TRUE, next |-> next, repl |-> repl]

\* the last position of the longest run of characters of class C that starts at i
\* (i - 1 when s[i] is not in C)
RunEnd(s, i, C) == Min({j \in i..(Len(s) + 1) : At(s, j) \notin C}) - 1

\* ([0-9\.\-]+)\^(-?[0-9]+)  ->  \1<super>\2</super>
MatchCaret(s, i) ==
    LET a == RunEnd(s, i, Digit \cup {".", "-"})
        p == a + 2
        q == IF At(s, p) = "-" THEN p + 1 ELSE p
        d == RunEnd(s, q, Digit)
    IN IF a >= i /\ At(s, a + 1) = "^" /\ d >= q
       THEN Match(d + 1, SubSeq(s, i, a) \o Super(SubSeq(s, p, d)))
       ELSE NoMatch

\* m/s\^?([0-9]+), IGNORECASE  ->  m/s<super>\1</super>
MatchVelocity(s, i) ==
    LET p == i + 3
        q == IF At(s, p) = "^" THEN p + 1 ELSE p
        d == RunEnd(s, q, Digit)
    IN IF /\ At(s, i) \in {"m", "M"}
          /\ At(s, i + 1) = "/"
          /\ At(s, i + 2) \in {"s", "S"}
          /\ d >= q
       THEN Match(d + 1, <<"m", "/", "s">> \o Super(SubSeq(s, q, d)))
       ELSE NoMatch

\* ([A-Za-z]+)/s\^?([0-9]+), IGNORECASE  ->  \1/s<super>\2</super>
MatchPerSecond(s, i) ==
    LET a == RunEnd(s, i, Letter)
        p == a + 3
        q == IF At(s, p) = "^" THEN p + 1 ELSE p
        d == RunEnd(s, q, Digit)
    IN IF /\ a >= i
          /\ At(s, a + 1) = "/"
          /\ At(s, a + 2) \in {"s", "S"}
          /\ d >= q
       THEN Match(d + 1, SubSeq(s, i, a) \o <<"/", "s">> \o Super(SubSeq(s, q, d)))
       ELSE NoMatch

\* ([A-Za-z\)\]])_([0-9]+)  ->  \1<sub>\2</sub>
MatchUnderscore(s, i) ==
    LET d == RunEnd(s, i + 2, Digit)
    IN IF /\ At(s, i) \in Letter \cup {")", "]"}
          /\ At(s, i + 1) = "_"
          /\ d >= i + 2
       THEN Match(d + 1, <<s[i]>> \o Sub(SubSeq(s, i + 2, d)))
       ELSE NoMatch

\* (?<![A-Za-z0-9])([A-Z][a-z]?)(\d+)  ->  \1<sub>\2</sub>
MatchChemical(s, i) ==
    LET q == IF At(s, i + 1) \in Lower THEN i + 2 ELSE i + 1
        d == RunEnd(s, q, Digit)
    IN IF /\ At(s, i - 1) \notin Letter \cup Digit
          /\ At(s, i) \in Upper
          /\ d >= q
       THEN Match(d + 1, SubSeq(s, i, q - 1) \o Sub(SubSeq(s, q, d)))
       ELSE NoMatch

\* (10)\s*[xX or the multiplication sign]\s*10\^?(-?[0-9]+)
\*   ->  \1, the multiplication sign, 10<super>\2</super>
MatchScientific(s, i) ==
    LET a == RunEnd(s, i + 2, Space)
        b == RunEnd(s, a + 2, Space)
        p == b + 3
        q == IF At(s, p) = "^" THEN p + 1 ELSE p
        r == IF At(s, q) = "-" THEN q + 1 ELSE q
        d == RunEnd(s, r, Digit)
    IN IF /\ OccursAt(s, i, <<"1", "0">>)
          /\ At(s, a + 1) \in {"times", "x", "X"}
          /\ OccursAt(s, b + 1, <<"1", "0">>)
          /\ d >= r
       THEN Match(d + 1, <<"1", "0", "times", "1", "0">> \o Super(SubSeq(s, q, d)))
       ELSE NoMatch

\* re.sub from position i on (one step per match)
RECURSIVE SubFrom(_, _, _)
SubFrom(M(_, _), s, i) ==
    LET J == {j \in i..Len(s) : M(s, j).ok}
    IN IF J = {} THEN SubSeq(s, i, Len(s))
       ELSE CHOOSE r \in {SubSeq(s, i, j - 1) \o m.repl \o SubFrom(M, s, m.next) :
                          <<j, m>> \in {<<Min(J), M(s, Min(J))>>}} : TRUE

\* the stages of clean_text, in the order of the source
StripMarker(s) == Replace(s, <<"square">>, <<>>)
SubCaret(s) == SubFrom(MatchCaret, s, 1)
SubVelocity(s) == SubFrom(MatchVelocity, s, 1)
SubPerSecond(s) == SubFrom(MatchPerSecond, s, 1)
SubUnderscore(s) == SubFrom(MatchUnderscore, s, 1)
SubChemical(s) == SubFrom(MatchChemical, s, 1)
SubScientific(s) == SubFrom(MatchScientific, s, 1)

\* clean_text of a cell that is not None: the stages in the order of the source
clean_text(raw) ==
    CHOOSE r \in
      {preserve_tags_escape(s8) : s8 \in
      {SubScientific(s7) : s7 \in
      {SubChemical(s6) : s6 \in
      {SubUnderscore(s5) : s5 \in
      {SubPerSecond(s4) : s4 \in
      {SubVelocity(s3) : s3 \in
      {SubCaret(s2) : s2 \in
      {replace_unicode_super_sub(s1) : s1 \in
      {StripMarker(s0) : s0 \in {raw}}}}}}}}}} : TRUE

(***************************************************************************)
(* generate_pdf_for_set.  The story keeps the blocks the properties are    *)
(* about: the front matter of create_header_section as one block, the      *)
(* section headings and the question blocks (KeepTogether), each question  *)
(* block with its number, the column of its question cell and the layout   *)
(* of its options table.  Spacers are left out.                            *)
(***************************************************************************)
FrontMatter == [type |-> "front", n |-> 0, col |-> 0, layout |-> "none"]
SectionHeading(ordinal) ==
    [type |-> "heading", n |-> ordinal, col |-> 0, layout |-> "none"]
QuestionBlock(number, col, layout) ==
    [type |-> "question", n |-> number, col |-> col, layout |-> layout]

\* re.sub(r'<.*?>', '', opt): "<" up to the nearest ">" after it
MatchAnyTag(s, i) ==
    LET J == {j \in (i + 1)..Len(s) : s[j] = ">"}
    IN IF At(s, i) = "<" /\ J # {} THEN Match(Min(J) + 1, <<>>) ELSE NoMatch

StripTags(s) == SubFrom(MatchAnyTag, s, 1)

Max(S) == CHOOSE x \in S : \A y \in S : x >= y

\* max(len(re.sub(r'<.*?>','',opt)) for opt in options) < 25
OptionsLayout(options) ==
    IF Max({Len(StripTags(options[k])) : k \in 1..Len(options)}) < LayoutThreshold
    THEN "one_row_of_four"
    ELSE "two_rows_of_two"

\* the group at column c of the selected row: question cell and option cells
QuestionCell(df, c) == iloc0(df, c)
OptionCells(df, c) == [k \in 1..(GroupWidth - 1) |-> iloc0(df, c + k)]

\* a validity check that looks at the question cell only
GroupInvalid_question_only(df, c) == isna(df.rows[1].cells[c])

\* pd.isna(question) or any(pd.isna(option) for option in options)
GroupInvalid(df, c) ==
    \/ isna(QuestionCell(df, c))
    \/ \E k \in 1..(GroupWidth - 1) : isna(OptionCells(df, c)[k])

total_questions == SumValues(no_of_questions)

\* the state generate_pdf_for_set starts its loop in
StartWalk(df, name) ==
    /\ df_set' = df
    /\ set_name' = name
    /\ question_number' = 1
    /\ col_idx' = 1
    /\ current_section_idx' = 0
    /\ questions_in_section' = 0
    /\ story' = IF sections # <<>>
                THEN <<FrontMatter, SectionHeading(1)>>
                ELSE <<FrontMatter>>
    /\ pc' = "walk"

LoopCondition ==
    col_idx < df_set.ncols /\ question_number <= total_questions

\* a move to the next section one question late
SectionFull_late ==
    /\ current_section_idx < Len(sections)
    /\ questions_in_section > no_of_questions[current_section_idx + 1].value

\* the head of the loop body: the move to the next section
SectionFull ==
    /\ current_section_idx < Len(sections)
    /\ questions_in_section >= no_of_questions[current_section_idx + 1].value

section_idx_1 == IF SectionFull THEN current_section_idx + 1 ELSE current_section_idx
in_section_1 == IF SectionFull THEN 0 ELSE questions_in_section
story_1 ==
    IF SectionFull /\ current_section_idx + 1 < Len(sections)
    THEN Append(story, SectionHeading(current_section_idx + 2))
    ELSE story

NoFullGroup == col_idx + (GroupWidth - 1) >= df_set.ncols

ui_unchanged == <<df_raw, schema_vars, mode, unique_sets, zip_pos, out_vars, text_vars>>

\* the while condition fails
WalkExit ==
    /\ pc = "walk"
    /\ ~LoopCondition
    /\ pc' = "build"
    /\ UNCHANGED <<walk_vars, df_set, set_name, ui_unchanged>>

\* the break
WalkBreak ==
    /\ pc = "walk"
    /\ LoopCondition
    /\ NoFullGroup
    /\ current_section_idx' = section_idx_1
    /\ questions_in_section' = in_section_1
    /\ story' = story_1
    /\ pc' = "build"
    /\ UNCHANGED <<question_number, col_idx, df_set, set_name, ui_unchanged>>

\* a skip that leaves the column cursor where it is
WalkSkip_stuck ==
    /\ pc = "walk"
    /\ LoopCondition
    /\ ~NoFullGroup
    /\ GroupInvalid(df_set, col_idx)
    /\ current_section_idx' = section_idx_1
    /\ questions_in_section' = in_section_1
    /\ story' = story_1
    /\ UNCHANGED <<col_idx, question_number, pc, df_set, set_name, ui_unchanged>>

\* a group with a missing cell
WalkSkip ==
    /\ pc = "walk"
    /\ LoopCondition
    /\ ~NoFullGroup
    /\ GroupInvalid(df_set, col_idx)
    /\ current_section_idx' = section_idx_1
    /\ questions_in_section' = in_section_1
    /\ story' = story_1
    /\ col_idx' = col_idx + GroupWidth
    /\ UNCHANGED <<question_number, pc, df_set, set_name, ui_unchanged>>

\* a group with all its cells: one question block, its options in the layout
AtCompleteGroup ==
    /\ pc = "walk"
    /\ LoopCondition
    /\ ~NoFullGroup
    /\ ~GroupInvalid(df_set, col_idx)

EmitGroup(layout) ==
    /\ AtCompleteGroup
    /\ story' = Append(story_1, QuestionBlock(question_number, col_idx, layout))
    /\ current_section_idx' = section_idx_1
    /\ col_idx' = col_idx + GroupWidth
    /\ question_number' = question_number + 1
    /\ questions_in_section' = in_section_1 + 1
    /\ UNCHANGED <<pc, df_set, set_name, ui_unchanged>>

\* the layout is the one the cleaned options of the group call for
WalkEmit ==
    /\ AtCompleteGroup
    /\ \E layout \in {OptionsLayout([k \in 1..(GroupWidth - 1) |->
                          clean_text(OptionCells(df_set, col_idx)[k].text)])} :
          EmitGroup(layout)

(***************************************************************************)
(* The script run: the schema fields, the sheet, the two buttons.          *)
(***************************************************************************)
Message(kind, name) == <<kind, name>>

walk_unchanged == <<walk_vars, df_set, set_name>>

\* "Section & Marking Schema": both lists are parsed inside one try block
ParseSchema ==
    /\ pc = "schema"
    /\ IF ParsesAsInt(no_of_questions)
       THEN /\ no_of_questions' = MapInt(no_of_questions)
            /\ IF ParsesAsInt(marks_per_question)
               THEN /\ marks_per_question' = MapInt(marks_per_question)
                    /\ UNCHANGED messages
               ELSE /\ UNCHANGED marks_per_question
                    /\ messages' = Append(messages, Message("error_enter_numbers", 0))
       ELSE /\ UNCHANGED <<no_of_questions, marks_per_question>>
            /\ messages' = Append(messages, Message("error_enter_numbers", 0))
    /\ pc' = "sheet"
    /\ UNCHANGED <<df_raw, sections, mode, unique_sets, zip_pos, walk_unchanged,
                   documents, zip_entries, downloads, text_vars>>

\* the sheet is read; without sets there are no buttons
ReadSheet ==
    /\ pc = "sheet"
    /\ unique_sets' = get_unique_sets(df_raw)
    /\ IF get_unique_sets(df_raw) = <<>>
       THEN /\ messages' = Append(messages, Message("error_no_set_column", 0))
            /\ pc' = "done"
       ELSE /\ UNCHANGED messages
            /\ pc' = "buttons"
    /\ UNCHANGED <<df_raw, schema_vars, mode, zip_pos, walk_unchanged,
                   documents, zip_entries, downloads, text_vars>>

\* len(df_set.columns) < sum(no_of_questions) * 5 + 1
TooFewColumns(df) == df.ncols < total_questions * GroupWidth + 1

button_unchanged == <<df_raw, schema_vars, unique_sets, text_vars>>

(* "Download Selected Set" *)

\* sum(no_of_questions) over entries that are still text: TypeError, not caught
SelectedTypeError ==
    /\ pc = "buttons"
    /\ SumRaises(no_of_questions)
    /\ mode' = "single"
    /\ pc' = "crashed"
    /\ UNCHANGED <<button_unchanged, zip_pos, walk_unchanged, out_vars>>

SelectedNoQuestions ==
    /\ pc = "buttons"
    /\ ~SumRaises(no_of_questions)
    /\ ~(total_questions > 0)
    /\ mode' = "single"
    /\ messages' = Append(messages, Message("warning_no_questions", 0))
    /\ pc' = "done"
    /\ UNCHANGED <<button_unchanged, zip_pos, walk_unchanged,
                   documents, zip_entries, downloads>>

\* st.selectbox("Select a Set to download", unique_sets)
SetsOffered == {unique_sets[i] : i \in 1..Len(unique_sets)}

SelectedMismatch ==
  \E selected_set \in SetsOffered :
    /\ pc = "buttons"
    /\ ~SumRaises(no_of_questions)
    /\ total_questions > 0
    /\ TooFewColumns(FilterSet(df_raw, selected_set))
    /\ mode' = "single"
    /\ df_set' = FilterSet(df_raw, selected_set)
    /\ messages' = Append(messages, Message("error_more_questions", selected_set))
    /\ pc' = "done"
    /\ UNCHANGED <<button_unchanged, zip_pos, walk_vars, set_name,
                   documents, zip_entries, downloads>>

SelectedGenerate ==
  \E selected_set \in SetsOffered :
    /\ pc = "buttons"
    /\ ~SumRaises(no_of_questions)
    /\ total_questions > 0
    /\ ~TooFewColumns(FilterSet(df_raw, selected_set))
    /\ mode' = "single"
    /\ StartWalk(FilterSet(df_raw, selected_set), selected_set)
    /\ UNCHANGED <<button_unchanged, zip_pos, out_vars>>

\* doc.build, then the download button and the success message
SelectedBuilt ==
    /\ pc = "build"
    /\ mode = "single"
    /\ documents' = Append(documents, [set |-> set_name, story |-> story])
    /\ downloads' = Append(downloads, Message("MCQ_Set_.pdf", set_name))
    /\ messages' = Append(messages, Message("success_pdf", set_name))
    /\ pc' = "done"
    /\ UNCHANGED <<button_unchanged, mode, zip_pos, walk_unchanged, zip_entries>>

(* "Download All Sets as ZIP" *)

ZipTypeError ==
    /\ pc = "buttons"
    /\ SumRaises(no_of_questions)
    /\ mode' = "zip"
    /\ pc' = "crashed"
    /\ UNCHANGED <<button_unchanged, zip_pos, walk_unchanged, out_vars>>

ZipNoQuestions ==
    /\ pc = "buttons"
    /\ ~SumRaises(no_of_questions)
    /\ ~(total_questions > 0)
    /\ mode' = "zip"
    /\ messages' = Append(messages, Message("warning_no_questions", 0))
    /\ pc' = "done"
    /\ UNCHANGED <<button_unchanged, zip_pos, walk_unchanged,
                   documents, zip_entries, downloads>>

\* the archive is opened and the loop over unique_sets starts
ZipStart ==
    /\ pc = "buttons"
    /\ ~SumRaises(no_of_questions)
    /\ total_questions > 0
    /\ mode' = "zip"
    /\ zip_pos' = 1
    /\ pc' = "zip"
    /\ UNCHANGED <<button_unchanged, walk_unchanged, out_vars>>

current_set == unique_sets[zip_pos]

\* a set without the columns: the warning and continue
ZipSkip ==
    /\ pc = "zip"
    /\ zip_pos <= Len(unique_sets)
    /\ TooFewColumns(FilterSet(df_raw, current_set))
    /\ df_set' = FilterSet(df_raw, current_set)
    /\ messages' = Append(messages, Message("warning_skipping_set", current_set))
    /\ zip_pos' = zip_pos + 1
    /\ UNCHANGED <<button_unchanged, mode, pc, walk_vars, set_name,
                   documents, zip_entries, downloads>>

ZipGenerate ==
    /\ pc = "zip"
    /\ zip_pos <= Len(unique_sets)
    /\ ~TooFewColumns(FilterSet(df_raw, current_set))
    /\ StartWalk(FilterSet(df_raw, current_set), current_set)
    /\ UNCHANGED <<button_unchanged, mode, zip_pos, out_vars>>

\* doc.build, then zipf.write(pdf_path, "MCQ_Set_<set>.pdf") and the next set
ZipBuilt ==
    /\ pc = "build"
    /\ mode = "zip"
    /\ documents' = Append(documents, [set |-> set_name, story |-> story])
    /\ zip_entries' = Append(zip_entries, Message("MCQ_Set_.pdf", current_set))
    /\ zip_pos' = zip_pos + 1
    /\ pc' = "zip"
    /\ UNCHANGED <<button_unchanged, mode, walk_unchanged, downloads, messages>>

\* the loop is over: the archive is offered
ZipDone ==
    /\ pc = "zip"
    /\ zip_pos > Len(unique_sets)
    /\ downloads' = Append(downloads, Message("All_MCQ_Sets.zip", 0))
    /\ messages' = Append(messages, Message("success_zip", 0))
    /\ pc' = "done"
    /\ UNCHANGED <<button_unchanged, mode, zip_pos, walk_unchanged,
                   documents, zip_entries>>

(***************************************************************************)
(* The inputs of a run.                                                    *)
(***************************************************************************)
RECURSIVE Rep(_, _)
Rep(c, n) == IF n <= 0 THEN <<>> ELSE <<c>> \o Rep(c, n - 1)

RECURSIVE Flatten(_)
Flatten(ss) == IF ss = <<>> THEN <<>> ELSE Head(ss) \o Flatten(Tail(ss))

\* the schema fields: as many counts and marks as sections; an entry of a list is
\* a number or text that is no number
CountEntries == {StrEntry(v) : v \in 0..MaxCount} \cup {BadEntry}
MarkLists(n) ==
    {[i \in 1..n |-> StrEntry(1)],
     [i \in 1..n |-> IF i = n THEN BadEntry ELSE StrEntry(1)]}
Schemas ==
    UNION {{[sections |-> [i \in 1..n |-> i], counts |-> c, marks |-> m] :
              c \in [1..n -> CountEntries], m \in MarkLists(n)} :
           n \in 1..MaxSections}

\* question groups: complete, without its question, without its option C
ShortCell == Cell(<<"a">>)
CompleteGroup == [k \in 1..GroupWidth |-> ShortCell]
GroupKinds ==
    {CompleteGroup,
     [CompleteGroup EXCEPT ![1] = NaN],
     [CompleteGroup EXCEPT ![4] = NaN]}

Row(set, groups, trailing) ==
    [Set |-> set, cells |-> Flatten(groups) \o Rep(ShortCell, trailing)]
Sheet(rows) == [ncols |-> 1 + Len(rows[1].cells), rows |-> rows]

\* one row, every pattern of missing groups, with and without columns after the
\* last full group
WalkSheets ==
    UNION {{Sheet(<<Row(1, groups, trailing)>>) :
              groups \in [1..g -> GroupKinds], trailing \in {0, 2}} :
           g \in 0..MaxGroups}

\* several rows: the Set column in any order, with repeated and missing
\* identifiers; the first group of one row may lack its question
SetColumns == {<<2, 1>>, <<1, 2>>, <<3, 1, 2>>, <<1, 1>>, <<2, SetNaN>>, <<SetNaN>>}
SetSheets ==
    UNION {{Sheet([r \in 1..Len(sc) |->
                     Row(sc[r],
                         [k \in 1..g |-> IF k = 1 /\ r = hole
                                         THEN [CompleteGroup EXCEPT ![1] = NaN]
                                         ELSE CompleteGroup],
                         0)]) :
              g \in 0..MaxGroups, hole \in 0..Len(sc)} :
           sc \in SetColumns}

\* one row with one group: the options that decide the layout
OptionTexts ==
    {Rep("a", LayoutThreshold - 1),
     Rep("a", LayoutThreshold),
     T_B_OPEN \o Rep("a", LayoutThreshold - 1) \o T_B_CLOSE,
     <<"H", "2", "O">> \o Rep("a", LayoutThreshold - 4),
     Rep("a", LayoutThreshold - 2) \o <<"&">>,
     Rep("a", LayoutThreshold - 2) \o <<"\"">>}
LayoutSheets ==
    {Sheet(<<[Set |-> 1,
              cells |-> [k \in 1..GroupWidth |->
                           IF k = pos + 1 THEN Cell(t) ELSE ShortCell]]>>) :
       pos \in 1..(GroupWidth - 1), t \in OptionTexts}

Sheets == WalkSheets \cup SetSheets \cup LayoutSheets

Init ==
    /\ df_raw \in Sheets
    /\ \E schema \in Schemas :
          /\ sections = schema.sections
          /\ no_of_questions = schema.counts
          /\ marks_per_question = schema.marks
    /\ pc = "schema"
    /\ mode = "none"
    /\ unique_sets = <<>>
    /\ zip_pos = 0
    /\ set_name = 0
    /\ df_set = [ncols |-> 0, rows |-> <<>>]
    /\ question_number = 0
    /\ col_idx = 0
    /\ current_section_idx = 0
    /\ questions_in_section = 0
    /\ story = <<>>
    /\ documents = <<>>
    /\ zip_entries = <<>>
    /\ downloads = <<>>
    /\ messages = <<>>
    /\ raw_text = [none |-> TRUE, text |-> <<>>]
    /\ text = <<>>
    /\ stage = 0

Next ==
    \/ ParseSchema
    \/ ReadSheet
    \/ SelectedTypeError
    \/ SelectedNoQuestions
    \/ SelectedMismatch
    \/ SelectedGenerate
    \/ SelectedBuilt
    \/ ZipTypeError
    \/ ZipNoQuestions
    \/ ZipStart
    \/ ZipSkip
    \/ ZipGenerate
    \/ ZipBuilt
    \/ ZipDone
    \/ WalkExit
    \/ WalkBreak
    \/ WalkSkip
    \/ WalkEmit

Spec == Init /\ [][Next]_vars

\* generate_pdf_for_set is straight-line code in the thread of the script run:
\* a loop pass that can be taken is taken (a pass of Next that emits a group is
\* the pass of WalkEmit, whatever the layout)
Walk ==
    \/ WalkExit
    \/ WalkBreak
    \/ WalkSkip
    \/ \E layout \in {"one_row_of_four", "two_rows_of_two"} : EmitGroup(layout)
FairSpec == Spec /\ WF_vars(Walk)

(***************************************************************************)
(* One call of clean_text: the argument is None or a text; text is the     *)
(* local s after stage stages.                                             *)
(***************************************************************************)
MaxFragments == 2
MaxSpaces == 1
MaxExponentDigits == 2

LastStage == 9

run_vars == <<df_raw, schema_vars, pc, mode, unique_sets, zip_pos, set_name,
              df_set, walk_vars, out_vars>>

\* if raw_text is None: return ""
CleanNone ==
    /\ stage = 0
    /\ raw_text.none
    /\ text' = <<>>
    /\ stage' = LastStage
    /\ UNCHANGED <<raw_text, run_vars>>

\* s = str(raw_text).replace("[[SUPER]]", "")
CleanStripMarker ==
    /\ stage = 0
    /\ ~raw_text.none
    /\ text' = StripMarker(text)
    /\ stage' = 1
    /\ UNCHANGED <<raw_text, run_vars>>

\* s = replace_unicode_super_sub(s)
CleanUnicode ==
    /\ stage = 1
    /\ ~raw_text.none
    /\ text' = replace_unicode_super_sub(text)
    /\ stage' = 2
    /\ UNCHANGED <<raw_text, run_vars>>

\* the caret form, x^2 or x^-2
CleanCaret ==
    /\ stage = 2
    /\ ~raw_text.none
    /\ text' = SubCaret(text)
    /\ stage' = 3
    /\ UNCHANGED <<raw_text, run_vars>>

\* the velocity form, ms-1
CleanVelocity ==
    /\ stage = 3
    /\ ~raw_text.none
    /\ text' = SubVelocity(text)
    /\ stage' = 4
    /\ UNCHANGED <<raw_text, run_vars>>

\* the per-second form, s-1
CleanPerSecond ==
    /\ stage = 4
    /\ ~raw_text.none
    /\ text' = SubPerSecond(text)
    /\ stage' = 5
    /\ UNCHANGED <<raw_text, run_vars>>

\* the underscore form, x_2
CleanUnderscore ==
    /\ stage = 5
    /\ ~raw_text.none
    /\ text' = SubUnderscore(text)
    /\ stage' = 6
    /\ UNCHANGED <<raw_text, run_vars>>

\* the chemical formula form, H2
CleanChemical ==
    /\ stage = 6
    /\ ~raw_text.none
    /\ text' = SubChemical(text)
    /\ stage' = 7
    /\ UNCHANGED <<raw_text, run_vars>>

\* the scientific form, 10 x 10^3
CleanScientific ==
    /\ stage = 7
    /\ ~raw_text.none
    /\ text' = SubScientific(text)
    /\ stage' = 8
    /\ UNCHANGED <<raw_text, run_vars>>

\* return preserve_tags_escape(s)
CleanEscape ==
    /\ stage = 8
    /\ ~raw_text.none
    /\ text' = preserve_tags_escape(text)
    /\ stage' = 9
    /\ UNCHANGED <<raw_text, run_vars>>

\* the arguments: texts put together from a few fragments (characters that the
\* output markup reserves, tags, placeholders, notation), and the scientific forms
Fragments ==
    {<<"<">>, <<">">>, <<"&">>, <<"\"">>, <<"'">>,
     T_B_OPEN, T_B_CLOSE, T_SUB_CLOSE, T_SUPER_OPEN,
     P_SUPER_OPEN, P_B_CLOSE,
     <<"sup2">>, <<"sub2">>, <<"sup-">>, <<"square">>,
     <<"2">>, <<"^", "2">>, <<"-">>, <<"x", "_">>, <<"x">>, <<"H">>,
     <<"m", "/", "s">>, <<"k", "/", "s">>}

RECURSIVE Texts(_)
Texts(n) ==
    IF n = 0 THEN {<<>>}
    ELSE Texts(n - 1) \cup {t \o f : t \in Texts(n - 1), f \in Fragments}

ExponentDigits ==
    UNION {[1..n -> {"0", "3"}] : n \in 1..MaxExponentDigits}
ScientificTexts ==
    {<<"1", "0">> \o Rep(" ", a) \o <<sign>> \o Rep(" ", b) \o <<"1", "0", "^">>
        \o minus \o digits :
       a \in 0..MaxSpaces, b \in 0..MaxSpaces, sign \in {"times", "x", "X"},
       minus \in {<<>>, <<"-">>}, digits \in ExponentDigits}

InitText ==
    /\ raw_text \in {[none |-> TRUE, text |-> <<>>]}
                      \cup {[none |-> FALSE, text |-> t] :
                              t \in Texts(MaxFragments) \cup ScientificTexts}
    /\ text = raw_text.text
    /\ stage = 0
    /\ df_raw = [ncols |-> 0, rows |-> <<>>]
    /\ sections = <<>>
    /\ no_of_questions = <<>>
    /\ marks_per_question = <<>>
    /\ pc = "clean_text"
    /\ mode = "none"
    /\ unique_sets = <<>>
    /\ zip_pos = 0
    /\ set_name = 0
    /\ df_set = [ncols |-> 0, rows |-> <<>>]
    /\ question_number = 0
    /\ col_idx = 0
    /\ current_section_idx = 0
    /\ questions_in_section = 0
    /\ story = <<>>
    /\ documents = <<>>
    /\ zip_entries = <<>>
    /\ downloads = <<>>
    /\ messages = <<>>

NextText ==
    \/ CleanNone
    \/ CleanStripMarker
    \/ CleanUnicode
    \/ CleanCaret
    \/ CleanVelocity
    \/ CleanPerSecond
    \/ CleanUnderscore
    \/ CleanChemical
    \/ CleanScientific
    \/ CleanEscape

SpecText == InitText /\ [][NextText]_vars

(***************************************************************************)
(* Properties.  The definitions below speak about the inputs and the       *)
(* outputs of a run in their own terms; they use none of the operators     *)
(* the actions are built from.                                             *)
(***************************************************************************)
Counts == [i \in 1..Len(no_of_questions) |-> no_of_questions[i].value]
ConfiguredTotal == SumSeq(Counts)
CountsBefore(k) == SumSeq(SubSeq(Counts, 1, k - 1))

SchemaIsNumeric ==
    /\ \A i \in 1..Len(no_of_questions) : no_of_questions[i].numeric
    /\ \A i \in 1..Len(marks_per_question) : marks_per_question[i].numeric

\* the rows of a set in the sheet, and the one generate_pdf_for_set reads
RowIndexes(set) == {i \in 1..Len(df_raw.rows) : df_raw.rows[i].Set = set}
FirstRow(set) == df_raw.rows[CHOOSE i \in RowIndexes(set) :
                                \A j \in RowIndexes(set) : i <= j]

\* the columns (from 1) where a full question group of a row starts
GroupStarts(row) ==
    {c \in 1..Len(row.cells) : (c - 1) % 5 = 0 /\ c + 4 <= Len(row.cells)}
HasMissingCell(row, c) == \E k \in 0..4 : row.cells[c + k] = NaN
ValidGroupStarts(row) == {c \in GroupStarts(row) : ~HasMissingCell(row, c)}

IsQuestion(b) == b.type = "question"
IsHeading(b) == b.type = "heading"
QuestionBlocks(st) == SelectSeq(st, IsQuestion)
HeadingBlocks(st) == SelectSeq(st, IsHeading)
NumbersAreOneTo(qs, k) == Len(qs) = k /\ \A j \in 1..k : qs[j].n = j

\* C1: with counts all >= 1 and a one-row set holding exactly T = sum(counts)
\* valid question groups, a document has len(sections) section headings and T
\* question blocks numbered 1..T in order, and the heading of section k >= 2
\* stands immediately before the question numbered 1 + (counts of sections 1..k-1).
C1_Premise(d) ==
    /\ \A i \in 1..Len(Counts) : Counts[i] >= 1
    /\ Cardinality(RowIndexes(d.set)) = 1
    /\ Cardinality(ValidGroupStarts(FirstRow(d.set))) = ConfiguredTotal

C1_SectionsAndNumbers ==
    \A i \in 1..Len(documents) :
       LET d == documents[i]
       IN C1_Premise(d) =>
            /\ Len(HeadingBlocks(d.story)) = Len(sections)
            /\ NumbersAreOneTo(QuestionBlocks(d.story), ConfiguredTotal)
            /\ \A k \in 2..Len(sections) :
                  \E p \in 1..(Len(d.story) - 1) :
                     /\ IsHeading(d.story[p]) /\ d.story[p].n = k
                     /\ IsQuestion(d.story[p + 1])
                     /\ d.story[p + 1].n = 1 + CountsBefore(k)

\* a document of two sections and three questions, one group of the row skipped
C1_Witness ==
    \E i \in 1..Len(documents) :
       /\ C1_Premise(documents[i])
       /\ SchemaIsNumeric
       /\ Len(sections) >= 2
       /\ ConfiguredTotal >= 2
       /\ Cardinality(GroupStarts(FirstRow(documents[i].set))) > ConfiguredTotal

\* C2 (as claimed): a set with fewer valid question groups than the configured
\* total gets the mismatch error and no document from "Download Selected Set";
\* every document that is produced has exactly sum(no_of_questions) question blocks.
C2_NoShortPaper ==
    (mode = "single" /\ SchemaIsNumeric) =>
       /\ \A i \in 1..Len(documents) :
             /\ Cardinality(ValidGroupStarts(FirstRow(documents[i].set)))
                   >= ConfiguredTotal
             /\ Len(QuestionBlocks(documents[i].story)) = ConfiguredTotal
       /\ (pc = "done" /\ ConfiguredTotal > 0 /\ documents = <<>>)
             => \E j \in 1..Len(messages) : messages[j][1] = "error_more_questions"

\* C3 (as claimed): with a non-integer entry in either list the error is reported
\* and then no button press calls generate_pdf_for_set, produces a document or an
\* archive entry, or ends in an unhandled exception.
C3_NoBuildAfterParseError ==
    (pc # "schema" /\ ~SchemaIsNumeric) =>
       /\ \E j \in 1..Len(messages) : messages[j][1] = "error_enter_numbers"
       /\ pc \notin {"walk", "build", "crashed"}
       /\ documents = <<>>
       /\ zip_entries = <<>>
       /\ downloads = <<>>

\* the text of a normalized option outside the recognized markup tags
RecognizedTags ==
    {T_SUPER_OPEN, T_SUPER_CLOSE, T_SUB_OPEN, T_SUB_CLOSE,
     T_B_OPEN, T_B_CLOSE, T_I_OPEN, T_I_CLOSE}
InsideTag(t, j) ==
    \E tag \in RecognizedTags :
       \E i \in (j - Len(tag) + 1)..j :
          i >= 1 /\ i + Len(tag) - 1 <= Len(t) /\ SubSeq(t, i, i + Len(tag) - 1) = tag
OutsideTags(t) == {j \in 1..Len(t) : ~InsideTag(t, j)}

\* the characters of the entities &amp; &lt; &gt; after their "&"
Entities == {<<"&", "a", "m", "p", ";">>, <<"&", "l", "t", ";">>, <<"&", "g", "t", ";">>}
EntityTail(t, j) ==
    \E e \in Entities :
       \E i \in (j - Len(e) + 1)..(j - 1) :
          i >= 1 /\ i + Len(e) - 1 <= Len(t) /\ SubSeq(t, i, i + Len(e) - 1) = e

\* characters a reader sees: outside tags, an entity counted as one character
VisibleLength(t) == Cardinality({j \in OutsideTags(t) : ~EntityTail(t, j)})

NormalizedOptions(set, c) == [k \in 1..4 |-> clean_text(FirstRow(set).cells[c + k].text)]

\* C7: the options of a question are laid out in one row of four
\* cells if and only if all four normalized options have fewer than 25 visible
\* characters, markup tags not counted; otherwise in two rows of two.
C7_LayoutByVisibleLength ==
    SchemaIsNumeric => \A i \in 1..Len(documents) :
       \A p \in 1..Len(documents[i].story) :
          LET b == documents[i].story[p]
              opts == NormalizedOptions(documents[i].set, b.col)
          IN IsQuestion(b) =>
               /\ b.layout \in {"one_row_of_four", "two_rows_of_two"}
               /\ b.layout = "one_row_of_four"
                    <=> \A k \in 1..4 : VisibleLength(opts[k]) < 25

\* C8: the ZIP loop takes the sets in ascending order of their identifier; a set
\* that fails the column check gets a warning and no entry, and the loop goes on;
\* every other set gets exactly one entry MCQ_Set_<set>.pdf: the entries are the
\* passing sets in ascending order.
SheetSetIds == {df_raw.rows[i].Set : i \in 1..Len(df_raw.rows)} \ {SetNaN}
AscendingIds ==
    CHOOSE seq \in [1..Cardinality(SheetSetIds) -> SheetSetIds] :
       \A i \in 1..(Len(seq) - 1) : seq[i] < seq[i + 1]
PassesColumnCheck(set) == 1 + Len(FirstRow(set).cells) >= ConfiguredTotal * 5 + 1
ZipProcessed == SubSeq(AscendingIds, 1, IF zip_pos = 0 THEN 0 ELSE zip_pos - 1)
PassingOf(ids) == SelectSeq(ids, PassesColumnCheck)
FailingOf(ids) == SelectSeq(ids, LAMBDA set : ~PassesColumnCheck(set))
SkipWarnings ==
    SelectSeq(messages, LAMBDA m : m[1] = "warning_skipping_set")

C8_ArchiveEntries ==
    mode = "zip" =>
       /\ zip_entries = [k \in 1..Len(PassingOf(ZipProcessed)) |->
                           <<"MCQ_Set_.pdf", PassingOf(ZipProcessed)[k]>>]
       /\ SkipWarnings = [k \in 1..Len(FailingOf(ZipProcessed)) |->
                            <<"warning_skipping_set", FailingOf(ZipProcessed)[k]>>]
       /\ (pc = "done" /\ ConfiguredTotal > 0) => ZipProcessed = AscendingIds

\* an archive of two or more entries from a sheet whose rows are not in set order
C8_Witness ==
    /\ mode = "zip"
    /\ pc = "done"
    /\ Len(zip_entries) >= 2
    /\ df_raw.rows[1].Set > df_raw.rows[2].Set

\* C9: while generate_pdf_for_set walks the columns, a group with a missing
\* question or option cell is never emitted and advances neither question_number
\* nor questions_in_section, while the column cursor still moves on by 5; the
\* question numbers emitted are always 1..k without a gap, k <= sum(no_of_questions).
WalkedRow == df_set.rows[1]
AtGroupWithMissingCell ==
    /\ pc = "walk"
    /\ col_idx < df_set.ncols
    /\ question_number <= ConfiguredTotal
    /\ col_idx + 4 < df_set.ncols
    /\ HasMissingCell(WalkedRow, col_idx)

C9_NumbersWithoutGap ==
    pc \in {"walk", "build"} =>
       /\ \A p \in 1..Len(story) :
             IsQuestion(story[p]) => ~HasMissingCell(WalkedRow, story[p].col)
       /\ NumbersAreOneTo(QuestionBlocks(story), question_number - 1)
       /\ question_number - 1 <= ConfiguredTotal

C9_SkipStep ==
    AtGroupWithMissingCell =>
       /\ question_number' = question_number
       /\ questions_in_section' <= questions_in_section
       /\ col_idx' = col_idx + 5
       /\ QuestionBlocks(story') = QuestionBlocks(story)

C9_SkippedGroupsNotCounted == [](C9_NumbersWithoutGap) /\ [][C9_SkipStep]_vars

\* a question emitted after a group before it was skipped
C9_Witness ==
    /\ pc \in {"walk", "build"}
    /\ \E p \in 1..Len(story) :
          IsQuestion(story[p]) /\ story[p].col > 1 + 5 * (story[p].n - 1)

\* C10 (as claimed): with counts >= 0, zero allowed anywhere, and at least
\* sum(counts) valid groups in the row, every configured section has exactly one
\* heading, and the question blocks between the heading of section k and the next
\* heading (or the end) are as many as the count of section k.
HeadingPositions(st, k) == {p \in 1..Len(st) : IsHeading(st[p]) /\ st[p].n = k}
QuestionsUnderHeading(st, p) ==
    {q \in (p + 1)..Len(st) :
        IsQuestion(st[q]) /\ \A r \in (p + 1)..q : ~IsHeading(st[r])}

C10_SectionSizes ==
    \A i \in 1..Len(documents) :
       LET d == documents[i]
       IN (/\ SchemaIsNumeric
           /\ \A k \in 1..Len(Counts) : Counts[k] >= 0
           /\ Cardinality(ValidGroupStarts(FirstRow(d.set))) >= ConfiguredTotal)
          => \A k \in 1..Len(sections) :
                /\ Cardinality(HeadingPositions(d.story, k)) = 1
                /\ \A p \in HeadingPositions(d.story, k) :
                      Cardinality(QuestionsUnderHeading(d.story, p)) = Counts[k]

(***************************************************************************)
(* Properties of clean_text, read when its last stage has run.             *)
(***************************************************************************)
Returned == stage = LastStage /\ ~raw_text.none
Reserved == {"<", ">", "&"}
Quotes == {"\"", "'"}
EntityAt(t, j) == \E e \in Entities : OccursAt(t, j, e)
Occurrences(t, ch) == Cardinality({j \in 1..Len(t) : t[j] = ch})

\* every angle bracket is part of a recognized tag, every ampersand opens an entity
BracketsAndAmpersandsEscaped(t) ==
    \A j \in 1..Len(t) :
       /\ t[j] \in {"<", ">"} => InsideTag(t, j)
       /\ t[j] = "&" => EntityAt(t, j)

\* C4 (as claimed): in the output of clean_text every angle bracket, ampersand
\* and quote character (' and ") that is not part of a recognized tag appears
\* only in its escaped entity form, never as the raw character.
C4_AllSpecialsEscaped ==
    Returned =>
       /\ BracketsAndAmpersandsEscaped(text)
       /\ \A j \in 1..Len(text) : text[j] \notin Quotes

\* C4 (amended): in the output of clean_text every angle bracket and ampersand
\* that is not part of a recognized tag appears only in its escaped entity form;
\* the quote characters ' and " are passed through as they are.
C4_BracketsAndAmpersandsEscaped ==
    Returned =>
       /\ BracketsAndAmpersandsEscaped(text)
       /\ \A q \in Quotes : Occurrences(text, q) = Occurrences(raw_text.text, q)

\* a text with a recognized tag, a bare "<" and a quote has been cleaned
C4_Witness ==
    /\ Returned
    /\ \E j \in 1..Len(text) : OccursAt(text, j, <<"&", "l", "t", ";">>)
    /\ \E i, j \in 1..Len(raw_text.text) :
          /\ i # j
          /\ OccursAt(raw_text.text, i, T_B_OPEN) \/ raw_text.text[i] \in Quotes
          /\ raw_text.text[j] = "<" /\ ~InsideTag(raw_text.text, j)

\* the recognized tags of a text, left to right
TagStarts(t) == {i \in 1..Len(t) : \E tag \in RecognizedTags : OccursAt(t, i, tag)}
TagAt(t, i) == CHOOSE tag \in RecognizedTags : OccursAt(t, i, tag)
IsClosing(tag) == tag[2] = "/"
KindOf(tag) == IF IsClosing(tag) THEN SubSeq(tag, 3, Len(tag) - 1)
               ELSE SubSeq(tag, 2, Len(tag) - 1)

\* every opening tag is closed by a tag of its kind, no closing tag comes before
\* its opener, pairs do not overlap: open is the stack of the kinds opened
RECURSIVE Paired(_, _, _)
Paired(t, P, open) ==
    IF P = {} THEN open = <<>>
    ELSE LET i == CHOOSE x \in P : \A y \in P : x <= y
             tag == TagAt(t, i)
         IN IF IsClosing(tag)
            THEN /\ open # <<>>
                 /\ Head(open) = KindOf(tag)
                 /\ Paired(t, P \ {i}, Tail(open))
            ELSE Paired(t, P \ {i}, <<KindOf(tag)>> \o open)
WellFormed(t) == Paired(t, TagStarts(t), <<>>)

\* C5: for every raw input, with tag-like or placeholder-like substrings too, the
\* recognized tags in the output of clean_text are well-formed (every opening
\* tag has a matching closing tag after it, no closing tag precedes its opener,
\* pairs do not overlap), and the placeholder round-trip of the last stage
\* turns no text into a tag.
C5_TagsWellFormed ==
    /\ [](Returned => WellFormed(text))
    /\ [][(stage = LastStage - 1 /\ stage' = LastStage)
             => Cardinality(TagStarts(text')) = Cardinality(TagStarts(text))]_vars

\* the input form of C6: "10", spaces, a multiplication sign, spaces, "10^",
\* an optional "-", digits
CaretOf(t) == CHOOSE c \in 1..Len(t) : t[c] = "^"
ExponentOf(t) == SubSeq(t, CaretOf(t) + 1, Len(t))
IsScientificForm(t) ==
    /\ Occurrences(t, "^") = 1
    /\ LET c == CaretOf(t)
           e == ExponentOf(t)
           d == IF At(e, 1) = "-" THEN Tail(e) ELSE e
           mid == SubSeq(t, 3, c - 3)
       IN /\ c >= 6
          /\ SubSeq(t, 1, 2) = <<"1", "0">>
          /\ SubSeq(t, c - 2, c - 1) = <<"1", "0">>
          /\ \E m \in 1..Len(mid) :
                /\ mid[m] \in {"times", "x", "X"}
                /\ \A n \in 1..Len(mid) : n # m => mid[n] = " "
          /\ d # <<>>
          /\ \A n \in 1..Len(d) : d[n] \in Digit

\* C6: for every input of the form "10", optional spaces, one of the signs
\* times, x, X, optional spaces, "10^", optional "-", digits n, clean_text
\* returns "10", the sign times, "10" and the signed exponent in one
\* superscript tag, without spaces.
C6_ScientificCanonical ==
    (Returned /\ IsScientificForm(raw_text.text)) =>
       text = <<"1", "0", "times", "1", "0">>
                 \o T_SUPER_OPEN \o ExponentOf(raw_text.text) \o T_SUPER_CLOSE

(***************************************************************************)
(* The end of the column walk.                                             *)
(***************************************************************************)
Walking == pc = "walk"
\* the columns of the group at the cursor: the question and its four options
ColumnsRead == col_idx..(col_idx + 4)
LastColumn == df_set.ncols - 1

\* a loop pass ends the walk where the cursor is, or goes on 5 columns further
\* after reading a group that lies within the columns of the sheet
C11_WalkStep ==
    Walking =>
       \/ ~Walking' /\ col_idx' = col_idx
       \/ /\ Walking'
          /\ col_idx' = col_idx + 5
          /\ \A c \in ColumnsRead : c >= 1 /\ c <= LastColumn

\* C11: the column walk of generate_pdf_for_set always terminates, for every
\* grid width, pattern of missing cells and section configuration: each loop
\* pass either ends the walk or advances col_idx by exactly 5 (on the skip path
\* and on the emit path), and no column at or beyond len(df_set.columns) is read.
C11_WalkTerminates ==
    /\ [][C11_WalkStep]_vars
    /\ [](Walking => col_idx >= 1 /\ col_idx <= df_set.ncols + 4)
    /\ Walking ~> ~Walking

\* a walk that emitted a question, skipped groups and ended at the break, short
\* of the configured total
C11_Witness ==
    /\ pc = "build"
    /\ SchemaIsNumeric
    /\ \E p \in 1..Len(story) :
          IsQuestion(story[p]) /\ story[p].col < col_idx - 5
    /\ col_idx > 1 + 5 * (question_number - 1)
    /\ col_idx < df_set.ncols
    /\ question_number <= ConfiguredTotal

====
